---- MODULE Spec2Model ----
(***************************************************************************)
(* Evented MPSC channel of tokio-core (src/src/channel.rs).                *)
(*                                                                         *)
(* Sender / SyncSender handles enqueue into the Queue Core from arbitrary  *)
(* threads; the single Receiver is polled on the event-loop thread and     *)
(* consults the Readiness Bridge (PollEvented) before it dequeues.         *)
(* Receiver::poll is three steps (poll_read, try_recv, need_read): sends   *)
(* on other threads interleave between them, the loop's own wakeup         *)
(* delivery does not (it runs on the thread that polls).                   *)
(***************************************************************************)
EXTENDS Integers, Sequences, FiniteSets, TLC

\* ---------------------------------------------------------------- bounds
MaxSenders == 2      \* handles that ever exist (the first one and its clones)
MaxValues  == 3      \* values sent successfully, over all handles
MaxCap     == 2      \* largest bound passed to sync_channel

Handles == 1..MaxSenders
Values  == Handles \X (1..MaxValues)
NoVal   == <<0, 0>>

VARIABLES
    args,        \* the constructor call: [fn, bound]
    chan,        \* the Queue Core made by the constructor: [kind, cap]
    queue,       \* Queue Core: the FIFO of enqueued, not yet dequeued values
    senders,     \* handle -> "unborn" | "alive" | "dropped"
    nextv,       \* handle -> index of the next value its caller sends
    blocked,     \* handle -> TRUE while a SyncSender::send call is blocked
    blockDeq,    \* handle -> number of dequeues done when that call blocked
    sres,        \* what the last send / try_send call that returned did
                 \* return, and whether it had blocked: [res, waited]
    rxAlive,     \* the Receiver has not been dropped
    readiness,   \* Readiness Bridge flag: "waiting" | "may_have_data"
    edge,        \* a become-readable notification the loop has not delivered
    notified,    \* the consumer task was woken and not polled since
    rpc,         \* place in Receiver::poll: "idle" | "recv" | "need_read"
    rres,        \* what the last completed Receiver::poll returned
    delivered,   \* the values Receiver::poll has yielded, in order
    fullv,       \* the value a try_send last returned with Full, until the
                 \* poll after the one that yields it (or until its handle
                 \* is dropped or passes it to the blocking send instead)
    parked,      \* the value whose send found the Receiver suspended on an
                 \* empty queue, until the poll after the one that yields it
    closedParked, \* the last sender was dropped while the Receiver was suspended
    skipped,     \* the last poll found the bridge "waiting" and returned
                 \* NotReady with a value queued, and no wakeup came since
    streak,      \* values yielded since the loop's last wakeup (0, 1, or 2
                 \* for two and more)
    woken        \* the poll in progress was started by a wakeup of the loop

hist == <<fullv, parked, closedParked, skipped, streak, woken>>

vars == <<args, chan, queue, senders, nextv, blocked, blockDeq, sres, rxAlive,
          readiness, edge, notified, rpc, rres, delivered, hist>>

\* ------------------------------------------------------------ constructors
\* channel(): an unbounded queue (the capacity field is not used).
channel == [kind |-> "unbounded", cap |-> 0]

\* A sync_channel that drops its bound and always asks for capacity 0.
sync_channel_zero(bound) == [kind |-> "sync", cap |-> 0]

\* A sync_channel that asks for one slot more than its bound.
sync_channel_plus(bound) == [kind |-> "sync", cap |-> bound + 1]

\* sync_channel(bound): a bounded queue of capacity `bound`.
sync_channel(bound) == [kind |-> "sync", cap |-> bound]

Calls == {[fn |-> "channel", bound |-> 0]}
         \cup {[fn |-> "sync_channel", bound |-> b] : b \in 0..MaxCap}

\* ------------------------------------------------------------- Queue Core
Range(s) == {s[i] : i \in 1..Len(s)}

AnySenderAlive == \E h \in Handles : senders[h] = "alive"

\* Capacity is available for one more value.
HasRoom == chan.kind = "unbounded" \/ Len(queue) < chan.cap

\* enqueue: "Disconnected" once the receiver is gone, "Io" when the transport
\* fails during the call (io), "Ok" otherwise.
EnqueueResult(io) ==
    IF ~rxAlive THEN "Disconnected"
    ELSE IF io THEN "Io"
    ELSE "Ok"

\* try_enqueue of the bounded variant: additionally "Full".
TryEnqueueResult(io) ==
    IF ~rxAlive THEN "Disconnected"
    ELSE IF ~HasRoom THEN "Full"
    ELSE IF io THEN "Io"
    ELSE "Ok"

\* dequeue_nonblocking: a value, "Empty", or "Disconnected" once the queue is
\* drained and every sender is gone.
TryRecvResult ==
    IF queue # <<>> THEN "Ok"
    ELSE IF AnySenderAlive THEN "Empty"
    ELSE "Disconnected"

\* The Receiver is suspended: its last poll returned NotReady and left the
\* bridge "waiting".
Suspended ==
    rxAlive /\ rpc = "idle" /\ rres.tag = "NotReady" /\ readiness = "waiting"

\* The value the caller of handle h passes to its next send.
Val(h) == <<h, nextv[h]>>

\* A successful enqueue of v: the value becomes visible and, if the queue
\* went from empty to non-empty, a readiness edge is raised for the loop.
Enqueued(v) ==
    /\ queue' = Append(queue, v)
    /\ edge' = (edge \/ queue = <<>>)
    /\ parked' = IF Suspended /\ queue = <<>> THEN v ELSE parked

\* ----------------------------------------------------------------- results
Ok          == [tag |-> "Ok", err |-> "", val |-> NoVal]
IoErr(e)    == [tag |-> "Err", err |-> e, val |-> NoVal]
TryErr(e, v) == [tag |-> "Err", err |-> e, val |-> v]
NoResult    == [tag |-> "none", err |-> "", val |-> NoVal]

NotReady    == [tag |-> "NotReady", val |-> NoVal]
ReadySome(v) == [tag |-> "Ready", val |-> v]
ReadyNone   == [tag |-> "End", val |-> NoVal]
PollErr     == [tag |-> "Err", val |-> NoVal]

\* The refused value that is remembered once handle h gives up resubmitting
\* its value with try_send.
Forget(h) == IF fullv = Val(h) THEN NoVal ELSE fullv

Init ==
    /\ args \in Calls
    /\ chan = IF args.fn = "channel" THEN channel ELSE sync_channel(args.bound)
    /\ queue = <<>>
    /\ senders = [h \in Handles |-> IF h = 1 THEN "alive" ELSE "unborn"]
    /\ nextv = [h \in Handles |-> 1]
    /\ blocked = [h \in Handles |-> FALSE]
    /\ blockDeq = [h \in Handles |-> 0]
    /\ sres = [res |-> NoResult, waited |-> FALSE]
    /\ rxAlive = TRUE
    /\ readiness = "waiting"
    /\ edge = FALSE
    /\ notified = FALSE
    /\ rpc = "idle"
    /\ rres = [tag |-> "none", val |-> NoVal]
    /\ delivered = <<>>
    /\ fullv = NoVal
    /\ parked = NoVal
    /\ closedParked = FALSE
    /\ skipped = FALSE
    /\ streak = 0
    /\ woken = FALSE


\* ------------------------------------------------------- Readiness Bridge
\* poll_read(): Ready exactly when the flag says "may have data".
BridgeReady == readiness = "may_have_data"

\* The loop delivers a pending become-readable edge: it sets the flag and
\* wakes the consumer task. It runs on the thread that polls, so never in
\* the middle of a poll.
LoopWakeup ==
    /\ rxAlive /\ edge /\ rpc = "idle"
    /\ edge' = FALSE
    /\ readiness' = "may_have_data"
    /\ notified' = TRUE
    /\ skipped' = FALSE
    /\ streak' = 0
    /\ UNCHANGED <<args, chan, queue, senders, nextv, blocked, blockDeq, sres,
                   rxAlive, rpc, rres, delivered, fullv, parked, closedParked,
                   woken>>

\* The consumer task owes the Receiver a poll: it was woken, or its last poll
\* yielded an item (no wakeup is registered then).
Runnable == notified \/ rres.tag = "Ready"

\* ------------------------------------------------------------ Sender side
\* A send that reports success whatever the queue answered.
SendReturn_swallow(r) == Ok

\* The map_err of Sender::send and SyncSender::send: Io(e) is passed on,
\* Disconnected becomes the io::Error "channel has been disconnected".
SendReturn(r) ==
    IF r = "Ok" THEN Ok
    ELSE IF r = "Io" THEN IoErr("io")
    ELSE IoErr("channel has been disconnected")

\* What a returning send does to the state of handle h and of the queue.
SendEffect(h, r) ==
    /\ sres' = [res |-> SendReturn(r), waited |-> blocked[h]]
    /\ nextv' = [nextv EXCEPT ![h] =
                    IF SendReturn(r).tag = "Ok" THEN @ + 1 ELSE @]
    /\ IF r = "Ok" THEN Enqueued(Val(h))
       ELSE UNCHANGED <<queue, edge, parked>>

\* The calls in progress or returned with Ok.
RECURSIVE Started(_)
Started(H) ==
    IF H = {} THEN 0
    ELSE LET h == CHOOSE x \in H : TRUE
         IN  (nextv[h] - 1) + (IF blocked[h] THEN 1 ELSE 0) + Started(H \ {h})

\* Handle h can start a call: it is alive and its thread is not inside one.
CanCall(h) ==
    senders[h] = "alive" /\ ~blocked[h] /\ Started(Handles) < MaxValues

\* A send that puts its value at the head of the queue.
Sender_send_front(h) ==
    /\ chan.kind = "unbounded" /\ CanCall(h)
    /\ sres' = [res |-> SendReturn(EnqueueResult(FALSE)), waited |-> FALSE]
    /\ nextv' = [nextv EXCEPT ![h] =
                    IF EnqueueResult(FALSE) = "Ok" THEN @ + 1 ELSE @]
    /\ IF EnqueueResult(FALSE) = "Ok"
       THEN /\ queue' = <<Val(h)>> \o queue
            /\ edge' = (edge \/ queue = <<>>)
            /\ parked' = IF Suspended /\ queue = <<>> THEN Val(h) ELSE parked
       ELSE UNCHANGED <<queue, edge, parked>>
    /\ UNCHANGED <<args, chan, senders, blocked, blockDeq, rxAlive,
                   readiness, notified, rpc, rres, delivered, fullv,
                   closedParked, skipped, streak, woken>>

\* A send that is held back while MaxCap values are queued, as if the
\* channel were bounded.
Sender_send_bounded(h) ==
    /\ chan.kind = "unbounded" /\ CanCall(h)
    /\ Len(queue) < MaxCap
    /\ \E io \in BOOLEAN : SendEffect(h, EnqueueResult(io))
    /\ UNCHANGED <<args, chan, senders, blocked, blockDeq, rxAlive,
                   readiness, notified, rpc, rres, delivered, fullv,
                   closedParked, skipped, streak, woken>>

\* Sender::send: never blocks.
Sender_send(h) ==
    /\ chan.kind = "unbounded" /\ CanCall(h)
    /\ \E io \in BOOLEAN : SendEffect(h, EnqueueResult(io))
    /\ UNCHANGED <<args, chan, senders, blocked, blockDeq, rxAlive,
                   readiness, notified, rpc, rres, delivered, fullv,
                   closedParked, skipped, streak, woken>>

\* SyncSender::send, the call: it returns at once with an error or when there
\* is room, and blocks the calling thread otherwise.
SyncSendCall(h) ==
    /\ chan.kind = "sync" /\ CanCall(h)
    /\ IF rxAlive /\ ~HasRoom
       THEN /\ blocked' = [blocked EXCEPT ![h] = TRUE]
            /\ blockDeq' = [blockDeq EXCEPT ![h] = Len(delivered)]
            /\ UNCHANGED <<queue, edge, nextv, sres, parked>>
       ELSE /\ \E io \in BOOLEAN : SendEffect(h, EnqueueResult(io))
            /\ UNCHANGED <<blocked, blockDeq>>
    /\ fullv' = Forget(h)
    /\ UNCHANGED <<args, chan, senders, rxAlive, readiness,
                   notified, rpc, rres, delivered,
                   closedParked, skipped, streak, woken>>

\* A blocked send that is released by capacity alone.
SyncSendResume_room_only(h) ==
    /\ blocked[h] /\ HasRoom
    /\ \E io \in BOOLEAN : SendEffect(h, EnqueueResult(io))
    /\ blocked' = [blocked EXCEPT ![h] = FALSE]
    /\ blockDeq' = [blockDeq EXCEPT ![h] = 0]
    /\ UNCHANGED <<args, chan, senders, rxAlive, readiness, notified, rpc,
                   rres, delivered, fullv,
                   closedParked, skipped, streak, woken>>

\* SyncSender::send, the blocked call returns: capacity became available or
\* the receiver went away.
SyncSendResume(h) ==
    /\ blocked[h] /\ (~rxAlive \/ HasRoom)
    /\ \E io \in BOOLEAN : SendEffect(h, EnqueueResult(io))
    /\ blocked' = [blocked EXCEPT ![h] = FALSE]
    /\ blockDeq' = [blockDeq EXCEPT ![h] = 0]
    /\ UNCHANGED <<args, chan, senders, rxAlive, readiness, notified, rpc,
                   rres, delivered, fullv,
                   closedParked, skipped, streak, woken>>

SyncSender_send(h) == SyncSendCall(h) \/ SyncSendResume(h)

\* A try_send that calls the blocking send of the queue.
SyncSender_try_send_blocking(h) == SyncSendCall(h)

\* SyncSender::try_send: the queue's error is returned as it is (Full and
\* Disconnected carry the value back), Ok(()) otherwise.
SyncSender_try_send(h) ==
    /\ chan.kind = "sync" /\ CanCall(h)
    /\ \E io \in BOOLEAN :
       LET r == TryEnqueueResult(io)
           v == Val(h)
       IN  /\ sres' = [res |-> IF r = "Ok" THEN Ok
                               ELSE IF r = "Io" THEN TryErr("Io", NoVal)
                               ELSE TryErr(r, v),
                       waited |-> FALSE]
           /\ nextv' = [nextv EXCEPT ![h] = IF r = "Ok" THEN @ + 1 ELSE @]
           /\ fullv' = IF r = "Full" THEN v ELSE fullv
           /\ IF r = "Ok" THEN Enqueued(v)
              ELSE UNCHANGED <<queue, edge, parked>>
    /\ UNCHANGED <<args, chan, senders, blocked, blockDeq, rxAlive,
                   readiness, notified, rpc, rres, delivered, closedParked,
                   skipped, streak, woken>>

\* The handle a clone creates.
NewHandle == CHOOSE n \in Handles :
                /\ senders[n] = "unborn"
                /\ \A m \in Handles : senders[m] = "unborn" => n <= m

CloneEffect(h) ==
    /\ senders[h] = "alive" /\ ~blocked[h]
    /\ \E n \in Handles : senders[n] = "unborn"
    /\ senders' = [senders EXCEPT ![NewHandle] = "alive"]
    /\ UNCHANGED <<args, chan, queue, nextv, blocked, blockDeq, sres, rxAlive,
                   readiness, edge, notified, rpc, rres, delivered, hist>>

\* Clone for Sender.
Sender_clone(h) == chan.kind = "unbounded" /\ CloneEffect(h)

\* Clone for SyncSender.
SyncSender_clone(h) == chan.kind = "sync" /\ CloneEffect(h)

\* Dropping a Sender / SyncSender: the last one closes the producer side,
\* which the loop learns as a readiness edge.
Sender_drop(h) ==
    /\ senders[h] = "alive" /\ ~blocked[h]
    /\ senders' = [senders EXCEPT ![h] = "dropped"]
    /\ edge' = (edge \/ \A m \in Handles \ {h} : senders[m] # "alive")
    /\ closedParked' = (closedParked \/
          (Suspended /\ \A m \in Handles \ {h} : senders[m] # "alive"))
    /\ fullv' = Forget(h)
    /\ UNCHANGED <<args, chan, queue, nextv, blocked, blockDeq, sres, rxAlive,
                   readiness, notified, rpc, rres, delivered,
                   parked, skipped, streak, woken>>

\* Dropping the Receiver (not while it is being polled: poll borrows it).
\* Its registration with the loop goes with it, and so do the values still
\* queued.
Receiver_drop ==
    /\ rxAlive /\ rpc = "idle"
    /\ rxAlive' = FALSE
    /\ queue' = <<>>
    /\ readiness' = "waiting"
    /\ edge' = FALSE
    /\ notified' = FALSE
    /\ fullv' = NoVal
    /\ parked' = NoVal
    /\ skipped' = FALSE
    /\ streak' = 0
    /\ UNCHANGED <<args, chan, senders, nextv, blocked, blockDeq, sres, rpc,
                   rres, delivered, closedParked, woken>>

\* ---------------------------------------------------------- Receiver side
\* A poll that goes on to the dequeue whatever the bridge answers.
PollRead_ignore_bridge ==
    /\ rxAlive /\ rpc = "idle"
    /\ notified' = FALSE
    /\ fullv' = IF rres = ReadySome(fullv) THEN NoVal ELSE fullv
    /\ parked' = IF rres = ReadySome(parked) THEN NoVal ELSE parked
    /\ rpc' = "recv" /\ rres' = rres
    /\ skipped' = FALSE
    /\ woken' = notified
    /\ UNCHANGED <<args, chan, queue, senders, nextv, blocked, blockDeq, sres,
                   rxAlive, readiness, edge, delivered, closedParked,
                   streak>>

\* Receiver::poll, first step: ask the bridge; NotReady is returned at once,
\* without consulting the queue.
PollRead ==
    /\ rxAlive /\ rpc = "idle"
    /\ notified' = FALSE
    /\ fullv' = IF rres = ReadySome(fullv) THEN NoVal ELSE fullv
    /\ parked' = IF rres = ReadySome(parked) THEN NoVal ELSE parked
    /\ IF BridgeReady
       THEN rpc' = "recv" /\ rres' = rres
       ELSE rpc' = "idle" /\ rres' = NotReady
    /\ skipped' = (~BridgeReady /\ queue # <<>>)
    /\ woken' = (BridgeReady /\ notified)
    /\ UNCHANGED <<args, chan, queue, senders, nextv, blocked, blockDeq, sres,
                   rxAlive, readiness, edge, delivered, closedParked,
                   streak>>

\* A match that re-arms after every dequeue, also a successful one.
RecvOutcome_rearm_always(r) ==
    IF r = "Ok" THEN "yield_rearm" ELSE IF r = "Empty" THEN "rearm" ELSE "end"

\* A match that drops the dequeued value and suspends.
RecvOutcome_drop_value(r) ==
    IF r = "Ok" THEN "suspend" ELSE IF r = "Empty" THEN "rearm" ELSE "end"

\* A match that takes Empty for the end of the sequence.
RecvOutcome_empty_ends(r) ==
    IF r = "Ok" THEN "yield" ELSE "end"

\* A match that takes Disconnected for one more empty read.
RecvOutcome_never_ends(r) ==
    IF r = "Ok" THEN "yield" ELSE "rearm"

\* A match that yields the value but reports NotReady for an empty read
\* without telling the bridge.
RecvOutcome_no_rearm(r) ==
    IF r = "Ok" THEN "yield" ELSE IF r = "Empty" THEN "suspend" ELSE "end"

\* A match that passes an empty read on to the consumer as an error.
RecvOutcome_empty_err(r) ==
    IF r = "Ok" THEN "yield" ELSE IF r = "Empty" THEN "err" ELSE "end"

\* The match of Receiver::poll on the result of try_recv.
RecvOutcome(r) ==
    IF r = "Ok" THEN "yield"
    ELSE IF r = "Empty" THEN "rearm"
    ELSE "end"

\* Receiver::poll, second step: try_recv and the match on its result. A
\* dequeue that returns Ok has taken the head of the queue, whatever the
\* match then does with it.
PollTryRecv ==
    /\ rpc = "recv"
    /\ LET r == TryRecvResult
           o == RecvOutcome(r)
       IN  /\ queue' = IF r = "Ok" THEN Tail(queue) ELSE queue
           /\ delivered' = IF r = "Ok" /\ o \in {"yield", "yield_rearm"}
                           THEN Append(delivered, Head(queue)) ELSE delivered
           /\ rres' = CASE o = "yield"       -> ReadySome(Head(queue))
                        [] o = "yield_rearm" -> ReadySome(Head(queue))
                        [] o = "end"         -> ReadyNone
                        [] o = "suspend"     -> NotReady
                        [] o = "err"         -> PollErr
                        [] OTHER             -> rres
           /\ rpc' = IF o = "rearm" THEN "need_read" ELSE "idle"
           /\ readiness' = IF o = "yield_rearm" THEN "waiting" ELSE readiness
           /\ streak' = IF r = "Ok" /\ o \in {"yield", "yield_rearm"}
                        THEN (IF streak = 0 THEN 1 ELSE 2)
                        ELSE 0
           /\ woken' = (woken /\ o = "rearm")
    /\ UNCHANGED <<args, chan, senders, nextv, blocked, blockDeq, sres, rxAlive,
                   edge, notified, fullv, parked, closedParked, skipped>>

\* Receiver::poll, third step: need_read re-arms the bridge and the call
\* returns NotReady.
PollNeedRead ==
    /\ rpc = "need_read"
    /\ readiness' = "waiting"
    /\ rres' = NotReady
    /\ rpc' = "idle"
    /\ woken' = FALSE
    /\ UNCHANGED <<args, chan, queue, senders, nextv, blocked, blockDeq, sres,
                   rxAlive, edge, notified, delivered, fullv, parked,
                   closedParked, skipped, streak>>

Receiver_poll == PollRead \/ PollTryRecv \/ PollNeedRead

\* ---------------------------------------------------------- specification
Next ==
    \/ \E h \in Handles : Sender_send(h)
    \/ \E h \in Handles : SyncSender_send(h)
    \/ \E h \in Handles : SyncSender_try_send(h)
    \/ \E h \in Handles : Sender_clone(h)
    \/ \E h \in Handles : SyncSender_clone(h)
    \/ \E h \in Handles : Sender_drop(h)
    \/ Receiver_drop
    \/ LoopWakeup
    \/ Receiver_poll

Spec == Init /\ [][Next]_vars

\* The scheduling the code relies on: the loop delivers pending edges, a
\* runnable consumer task is polled, a started poll runs to its end, and a
\* blocked sender thread that can proceed does.
Fairness ==
    /\ WF_vars(LoopWakeup)
    /\ WF_vars(Runnable /\ PollRead)
    /\ WF_vars(PollTryRecv)
    /\ WF_vars(PollNeedRead)
    /\ \A h \in Handles : WF_vars(SyncSendResume(h))

FairSpec == Spec /\ Fairness


\* ------------------------------------------------------------------ claims
InQueue(v) == v \in Range(queue)
Yielded(v) == v \in Range(delivered)

\* The values whose send or try_send returned Ok.
Acked == {v \in Values : v[2] < nextv[v[1]]}

\* Every value whose send returned Ok has been yielded by Receiver::poll.
AllYielded == queue = <<>> /\ Acked \subseteq Range(delivered)

C2_ExactlyOnce ==
    /\ \A i, j \in 1..Len(delivered) : i # j => delivered[i] # delivered[j]
    /\ \A i, j \in 1..Len(queue) : i # j => queue[i] # queue[j]
    /\ Range(queue) \cap Range(delivered) = {}
    /\ Range(queue) \cup Range(delivered) \subseteq Acked
    /\ rxAlive => Acked \subseteq Range(queue) \cup Range(delivered)

\* C2 witness: two handles sent concurrently and every value of both was
\* yielded.
C2_Witness ==
    /\ Len(delivered) = MaxValues
    /\ Range(delivered) = Acked
    /\ \E i, j \in 1..Len(delivered) : delivered[i][1] # delivered[j][1]

\* C3: FIFO per producer. The values of one handle are yielded in the order
\* in which that handle sent them.
C3_FifoPerProducer ==
    \A i, j \in 1..Len(delivered) :
        (i < j /\ delivered[i][1] = delivered[j][1])
            => delivered[i][2] < delivered[j][2]

\* C3 witness: a second value of one handle was yielded after a value of
\* another handle that was yielded after the first.
C3_Witness ==
    /\ Len(delivered) >= 3
    /\ delivered[1][1] = delivered[3][1]
    /\ delivered[1][1] # delivered[2][1]

NoSenders == ~AnySenderAlive

\* C4 as stated: once every handle is dropped and the queue is drained, the
\* next Receiver::poll (a call that starts in such a state) returns
\* end-of-sequence.
C4_NextPollEnds ==
    [][ (Receiver_poll /\ rpc = "idle" /\ rpc' = "idle"
           /\ NoSenders /\ queue = <<>>)
          => rres' = ReadyNone ]_vars

\* C4 as amended: producer-side disconnect is eventually observed. Once every
\* handle is dropped the Receiver, as long as it is kept, reaches
\* end-of-sequence in some later poll; a poll that finds the bridge still
\* "waiting" returns NotReady before that.
C4_DisconnectObserved ==
    (NoSenders /\ rxAlive) ~> (rres = ReadyNone \/ ~rxAlive)

\* C4 witness: the last sender was dropped while the Receiver was suspended
\* in "waiting", and a later poll returned end-of-sequence.
C4_Witness == closedParked /\ rres = ReadyNone /\ rxAlive

\* C5: end-of-sequence is never premature. Ready(None) is returned only with
\* every handle dropped, the queue empty and every acknowledged value yielded.
C5_EndNotPremature ==
    rres = ReadyNone =>
        /\ NoSenders
        /\ queue = <<>>
        /\ Acked \subseteq Range(delivered)

\* C5 witness: end-of-sequence after a clone was made and both handles were
\* dropped, with values yielded before it.
C5_Witness ==
    /\ rres = ReadyNone
    /\ \A h \in Handles : senders[h] = "dropped"
    /\ delivered # <<>>

Disconnected == IoErr("channel has been disconnected")

\* C6: consumer-side disconnect. With the Receiver dropped every Sender::send
\* and SyncSender::send returns the "channel has been disconnected" error,
\* and the Receiver never comes back.
C6_SendAfterDrop ==
    [][ /\ ~rxAlive => ~rxAlive'
        /\ \A h \in Handles :
              (~rxAlive /\ (Sender_send(h) \/ SyncSender_send(h)))
                  => /\ sres'.res = Disconnected
                     /\ ~blocked'[h]
                     /\ queue' = queue ]_vars

\* C6 witness: a send that was blocked on a full queue returned the
\* disconnected error after the Receiver was dropped.
C6_Witness == ~rxAlive /\ sres.res = Disconnected /\ sres.waited

C10_IdempotentSuspend ==
    [][ (Receiver_poll /\ queue = <<>> /\ AnySenderAlive)
          => /\ UNCHANGED <<args, chan, queue, senders, nextv, blocked,
                            blockDeq, sres, rxAlive, edge, delivered>>
             /\ rpc' = "idle" => (rres' = NotReady /\ readiness' = "waiting")
             /\ (rpc = "idle" /\ Suspended /\ ~notified) => UNCHANGED vars
      ]_vars

\* C10 witness: after values were yielded, a poll found the queue empty with
\* a sender alive, re-armed and returned NotReady.
C10_Witness ==
    /\ Suspended /\ queue = <<>> /\ AnySenderAlive
    /\ delivered # <<>>
    /\ ~edge /\ ~notified

\* C11: the unbounded send never blocks. On a channel made by channel() no
\* handle is ever blocked; Sender::send can be taken by every alive handle in
\* every state, whatever the queue holds and whether or not the consumer
\* polls (up to the MaxValues values of the model); and with the Receiver
\* alive it returns Ok with its value appended to the queue, or the transport
\* error with the queue as it was.
C11_UnboundedSendNeverBlocks ==
    /\ [](args.fn = "channel" =>
            \A h \in Handles :
               /\ ~blocked[h]
               /\ (senders[h] = "alive" /\ Started(Handles) < MaxValues)
                     => ENABLED Sender_send(h))
    /\ [][ \A h \in Handles :
             (Sender_send(h) /\ rxAlive)
                 => /\ blocked' = blocked
                    /\ \/ /\ sres' = [res |-> Ok, waited |-> FALSE]
                          /\ queue' = Append(queue, Val(h))
                       \/ /\ sres' = [res |-> IoErr("io"), waited |-> FALSE]
                          /\ queue' = queue ]_vars

\* C11 witness: MaxValues sends returned Ok on an unbounded channel whose
\* consumer never polled; all the values are queued.
C11_Witness ==
    /\ args.fn = "channel"
    /\ Len(queue) = MaxValues
    /\ sres.res = Ok
    /\ rres.tag = "none" /\ rxAlive

\* C12: end-of-sequence is terminal. Once Receiver::poll has returned
\* Ready(None), every later poll returns Ready(None) again: none returns
\* Ready(Some(v)), and nothing is yielded or enqueued any more.
C12_EndIsTerminal ==
    [][ rres = ReadyNone
          => /\ rres' = ReadyNone
             /\ delivered' = delivered
             /\ queue' = <<>> ]_vars

\* C12 witness: after values were yielded and end-of-sequence was returned,
\* a further poll is at its dequeue.
C12_Witness ==
    rres = ReadyNone /\ rpc = "recv" /\ delivered # <<>>

\* C13: the consumer never sees an error. Every result of Receiver::poll is
\* NotReady, Ready(Some(v)) or Ready(None); a dequeue that answers Empty
\* leads to need_read and the call returns NotReady; and a call returns
\* Ready(None) only on a dequeue that answers Disconnected.
C13_NoConsumerError ==
    /\ [](rres.tag \in {"none", "NotReady", "Ready", "End"})
    /\ [][ /\ (PollTryRecv /\ TryRecvResult = "Empty")
                 => (rpc' = "need_read" /\ rres' = rres)
           /\ PollNeedRead => (rpc' = "idle" /\ rres' = NotReady)
           /\ (Receiver_poll /\ rpc' = "idle" /\ rres' = ReadyNone)
                 => (PollTryRecv /\ TryRecvResult = "Disconnected") ]_vars

\* C13 witness: every value was yielded, the next dequeue answered Empty with
\* a sender alive, and the poll returned NotReady.
C13_Witness ==
    /\ rxAlive /\ rpc = "idle" /\ rres = NotReady
    /\ readiness = "waiting" /\ queue = <<>> /\ AnySenderAlive
    /\ Len(delivered) = MaxValues

\* C14: a poll that finds the bridge "waiting" returns NotReady without a
\* dequeue. The call is the single step poll_read: it leaves the queue, the
\* yielded values and the bridge as they were, also with a value queued.
C14_NotReadySkipsQueue ==
    [][ (Receiver_poll /\ rpc = "idle" /\ readiness = "waiting")
          => /\ rpc' = "idle" /\ rres' = NotReady
             /\ queue' = queue /\ delivered' = delivered
             /\ readiness' = readiness /\ edge' = edge ]_vars

\* C14 witness: a poll returned NotReady from the bridge while a value was
\* queued, and the value is still in the queue.
C14_Witness ==
    skipped /\ queue # <<>> /\ rres = NotReady /\ readiness = "waiting"

\* C15: re-arm on every empty read, and only then. The dequeue step goes on
\* to need_read exactly when the queue answers Empty and does not touch the
\* bridge itself; need_read runs once, sets the bridge to "waiting" and the
\* call returns NotReady; poll_read does not touch the flag; and nothing but
\* need_read (or the drop of the Receiver) takes the bridge to "waiting".
C15_RearmOnEmptyOnly ==
    [][ /\ PollTryRecv
             => /\ (TryRecvResult = "Empty") <=> (rpc' = "need_read")
                /\ readiness' = readiness
        /\ PollNeedRead
             => (readiness' = "waiting" /\ rres' = NotReady /\ rpc' = "idle")
        /\ PollRead => readiness' = readiness
        /\ (readiness # "waiting" /\ readiness' = "waiting")
             => (PollNeedRead \/ Receiver_drop) ]_vars

\* C15 witness: one value was yielded, the next poll read the queue empty,
\* re-armed and returned NotReady; no edge is pending.
C15_Witness ==
    /\ rxAlive /\ rpc = "idle" /\ rres = NotReady
    /\ readiness = "waiting" /\ ~edge /\ ~notified
    /\ Len(delivered) = 1 /\ queue = <<>>

\* C16: a successful dequeue keeps the Receiver eligible. A dequeue that
\* finds a value yields the head of the queue and leaves the bridge in "may
\* have data"; until a poll reads the queue empty the bridge stays so, and a
\* poll that finds it so goes on to the dequeue. So the values queued are
\* yielded by consecutive polls with no wakeup in between.
C16_DequeueKeepsEligible ==
    /\ []((rxAlive /\ (rpc = "recv" \/ (rpc = "idle" /\ rres.tag = "Ready")))
            => readiness = "may_have_data")
    /\ [][ /\ (PollTryRecv /\ queue # <<>>)
                 => /\ rres' = ReadySome(Head(queue))
                    /\ queue' = Tail(queue)
                    /\ delivered' = Append(delivered, Head(queue))
                    /\ rpc' = "idle"
                    /\ readiness' = "may_have_data"
           /\ (PollRead /\ readiness = "may_have_data")
                 => (rpc' = "recv" /\ queue' = queue
                       /\ readiness' = readiness) ]_vars

\* C16 witness: two polls in a row yielded a value each with no wakeup of
\* the loop between them.
C16_Witness ==
    /\ streak = 2 /\ rres.tag = "Ready" /\ rpc = "idle"
    /\ Len(delivered) >= 2
    /\ readiness = "may_have_data"

\* A send or try_send of handle h that returns Ok.
SendOk(h) ==
    /\ Sender_send(h) \/ SyncSender_send(h) \/ SyncSender_try_send(h)
    /\ nextv'[h] # nextv[h]

\* C17 as stated, its middle part: a poll that is run because of a wakeup of
\* the loop does not read the queue empty.
C17_WokenPollFindsValue ==
    [][ (PollTryRecv /\ woken) => TryRecvResult # "Empty" ]_vars

\* C17 as amended: send-to-readiness ordering. A send that returns Ok has
\* appended its value, and has raised a readiness edge if the queue was
\* empty; while a value is queued the bridge is in "may have data" or an
\* edge is pending; and when the send found the Receiver suspended on the
\* empty queue, the poll run because of that edge finds that value at the
\* head of the queue. (When the bridge was in "may have data" at the send, a
\* poll made before the wakeup may have yielded the value, and the poll run
\* because of the edge then reads the queue empty.)
C17_SendThenReadiness ==
    /\ []((rxAlive /\ queue # <<>>)
            => (readiness = "may_have_data" \/ edge))
    /\ [][ /\ \A h \in Handles :
                SendOk(h) => /\ queue' = Append(queue, Val(h))
                             /\ queue = <<>> => edge'
           /\ (PollTryRecv /\ woken /\ parked # NoVal /\ ~Yielded(parked))
                 => (queue # <<>> /\ Head(queue) = parked) ]_vars

\* C17 witness: a send found the Receiver suspended on the empty queue, the
\* loop delivered the edge, and the poll it woke is at its dequeue with that
\* value at the head of the queue.
C17_Witness ==
    /\ rpc = "recv" /\ woken
    /\ parked # NoVal /\ queue # <<>> /\ Head(queue) = parked

\* C18: a blocked producer is released by disconnect. A SyncSender::send
\* that is blocked when the Receiver is gone does not stay blocked for ever
\* (the Receiver never comes back, so: again and again no call is blocked
\* with the Receiver gone), and a blocked call that returns with the Receiver
\* gone returns the "channel has been disconnected" error and enqueues
\* nothing.
C18_BlockedReleasedByDrop ==
    /\ []<>(\A h \in Handles : blocked[h] => rxAlive)
    /\ [][ \A h \in Handles :
             (blocked[h] /\ ~rxAlive /\ ~blocked'[h])
                 => /\ sres' = [res |-> Disconnected, waited |-> TRUE]
                    /\ nextv' = nextv
                    /\ queue' = queue ]_vars

\* C18 witness: on a channel of bound 0, where no capacity ever comes, a
\* blocked send returned the disconnected error after the Receiver was
\* dropped, and its handle is still alive.
C18_Witness ==
    /\ args = [fn |-> "sync_channel", bound |-> 0]
    /\ ~rxAlive /\ sres = [res |-> Disconnected, waited |-> TRUE]
    /\ \A h \in Handles : ~blocked[h]
    /\ AnySenderAlive

====
